---- MODULE Spec2Model ----
(***************************************************************************)
(* fitbit_convert.py: the run of the main sequence                         *)
(*   get_fitbit_path, export_spo2_as_viatom, export_sleep_phases_as_dreem  *)
(* as a state machine.  Times are whole seconds.  A local timestamp t is   *)
(* the number of seconds since 2023-12-31 00:00:00 local time.             *)
(***************************************************************************)
EXTENDS Integers, Sequences, FiniteSets, TLC

\* ------------------------------------------------------------ constants
\* timedelta(minutes=5), in seconds (5 * 60)
SessionGap == 300
\* timedelta(seconds=4)
GridStep == 4
\* the cap on the records of one chunk
MaxChunkLen == 4095
\* read_csv: values below CsvMin are skipped, CsvFull is yielded as CsvFullAs
CsvMin == 61
CsvFull == 100
CsvFullAs == 99
\* write_to_viatom_file: values up to WriterInvalid are written as invalid,
\* values above WriterMax as WriterMax
WriterInvalid == 61
WriterMax == 99
\* the bytes before the first record
HeaderLen == 40
RecordLen == 5

\* Python's None, and a local name that has not been bound yet
None == 0 - 1
Unbound == 0 - 2

\* ------------------------------------------------------------ bounds
\* rows read from the SpO2 csv files, entries read from the heart-rate files
MaxRows == 3
MaxEntries == 2
\* rows of the long night of SpecLong
LongRows == 57
\* passes of the while loop evaluated in one round
EvalDepth == 50

\* ------------------------------------------------------------ inputs
\* the profile's timezone is one hour east of UTC
TzOffset == 60 * 60
\* UTC second of the first input event: 23:55:00 local time on 2023-12-31
Base == 24 * 3600 - TzOffset - 300

\* csv rows: timestamp in UTC seconds, value in tenths of a percent
TimedRows == { [ts |-> Base + 10, raw |-> 950],
               [ts |-> Base + 311, raw |-> 960],
               [ts |-> Base + 611, raw |-> 970] }
RawValues == {605, 610, 995, 1010}
FirstRows == TimedRows \cup [ts : {Base + 311}, raw : RawValues]
\* heart-rate entries: timestamp in UTC seconds, bpm
HrEntries == { [ts |-> Base + 10, bpm |-> 60],
               [ts |-> Base + 400, bpm |-> 256],
               [ts |-> Base + 704, bpm |-> 90] }
\* the long night: a sample every five minutes, heart rate before and after
LongStart == Base + 10
LongHrEntries == { [ts |-> LongStart, bpm |-> 60],
                   [ts |-> LongStart + SessionGap * LongRows + 100, bpm |-> 90] }

\* ------------------------------------------------------------ helpers
Min(S) == CHOOSE x \in S : \A y \in S : x <= y
Max(S) == CHOOSE x \in S : \A y \in S : x >= y

\* utc_datetime.astimezone(tz.gettz(timezone))
Localize(utc) == utc + TzOffset

\* round(float(s)): Python rounds a half to the even neighbour
PyRound(raw) ==
  LET q == raw \div 10
      r == raw % 10
  IN  IF r < 5 THEN q
      ELSE IF r > 5 THEN q + 1
      ELSE IF q % 2 = 0 THEN q ELSE q + 1

\* the fields of a datetime
Year(t) == IF t \div 86400 = 0 THEN 2023 ELSE 2024
Month(t) == IF t \div 86400 = 0 THEN 12 ELSE 1
Day(t) == IF t \div 86400 = 0 THEN 31 ELSE t \div 86400
Hour(t) == (t % 86400) \div 3600
Minute(t) == (t % 3600) \div 60
Second(t) == t % 60

VARIABLES
  pc,                 \* position in the main sequence
  err,                \* the exception that ended the run, "" if none
  fitbit_path,        \* get_fitbit_path's result
  timezone,           \* read_profile_timezone's result
  read_rows,          \* history: the csv rows read so far
  n_entries,          \* history: the number of heart-rate entries read
  data,               \* align_spo2_data: timestamp -> [spo2, bpm]
  sessions,           \* align_spo2_data: the sessions, before retention
  prev_timestamp,
  last_bpm_timestamp,
  filtered_sessions,  \* align_spo2_data's result
  sorted_data,        \* divide_data_to_viatom_chunks
  chunks,
  chunk,
  s_idx,              \* the session of the outer loop, 1-based
  i,                  \* the index of the inner loop, 1-based
  last_timestamp,
  spo2,
  bpm,
  n_written,          \* export_spo2_as_viatom: chunks handed to the writer
  files,              \* the .bin files on disk: name -> bytes
  sleep_csv           \* whether sleep.csv has been opened for writing

vars == << pc, err, fitbit_path, timezone, read_rows, n_entries, data, sessions,
           prev_timestamp, last_bpm_timestamp, filtered_sessions, sorted_data,
           chunks, chunk, s_idx, i, last_timestamp, spo2, bpm, n_written,
           files, sleep_csv >>

alignVars == << read_rows, n_entries, data, sessions, prev_timestamp,
                last_bpm_timestamp, filtered_sessions >>
divideVars == << sorted_data, chunks, chunk, s_idx, i, last_timestamp, spo2, bpm >>
outVars == << n_written, files, sleep_csv >>

Init ==
  /\ pc = "get_fitbit_path"
  /\ err = ""
  /\ fitbit_path = ""
  /\ timezone = ""
  /\ read_rows = << >>
  /\ n_entries = 0
  /\ data = << >>
  /\ sessions = << >>
  /\ prev_timestamp = Unbound
  /\ last_bpm_timestamp = None
  /\ filtered_sessions = << >>
  /\ sorted_data = << >>
  /\ chunks = << >>
  /\ chunk = << >>
  /\ s_idx = 0
  /\ i = 0
  /\ last_timestamp = None
  /\ spo2 = Unbound
  /\ bpm = Unbound
  /\ n_written = 0
  /\ files = << >>
  /\ sleep_csv = FALSE

Raise(e) == pc' = "error" /\ err' = e

\* ------------------------------------------------------------ get_fitbit_path
GetFitbitPathOk ==
  /\ pc = "get_fitbit_path"
  /\ \E p \in {"Fitbit", "Takeout/Fitbit"} : fitbit_path' = p
  /\ pc' = "read_profile_timezone"
  /\ UNCHANGED << err, timezone, alignVars, divideVars, outVars >>

\* the path does not exist, or holds neither Fitbit nor Takeout/Fitbit
GetFitbitPathError ==
  /\ pc = "get_fitbit_path"
  /\ \E e \in {"not a valid directory", "does not contain Takeout/Fitbit"} : Raise(e)
  /\ UNCHANGED << fitbit_path, timezone, alignVars, divideVars, outVars >>

\* ------------------------------------------------------------ read_profile_timezone
ReadProfileTimezoneOk ==
  /\ pc = "read_profile_timezone"
  /\ timezone' = "UTC+1"
  /\ pc' = "get_spo2_files"
  /\ UNCHANGED << err, fitbit_path, alignVars, divideVars, outVars >>

\* Profile.csv has no row
ReadProfileTimezoneError ==
  /\ pc = "read_profile_timezone"
  /\ Raise("Profile not detected!")
  /\ UNCHANGED << fitbit_path, timezone, alignVars, divideVars, outVars >>

\* ------------------------------------------------------------ get_spo2_files
GetSpo2FilesOk ==
  /\ pc = "get_spo2_files"
  /\ pc' = "read_csv"
  /\ UNCHANGED << err, fitbit_path, timezone, alignVars, divideVars, outVars >>

\* one of the two globs is empty
GetSpo2FilesError ==
  /\ pc = "get_spo2_files"
  /\ \E csv_files \in 0..1, json_files \in 0..1 :
       /\ ~(csv_files # 0 /\ json_files # 0)
       /\ Raise("No SpO2 or heart rate data detected!")
  /\ UNCHANGED << fitbit_path, timezone, alignVars, divideVars, outVars >>

\* ------------------------------------------------------------ align_spo2_data
\* data[timestamp][k] = value on a defaultdict(lambda: [None, None])
SetField(d, t, k, v) ==
  [ x \in DOMAIN d \cup {t} |->
      LET old == IF x \in DOMAIN d THEN d[x] ELSE [spo2 |-> None, bpm |-> None]
      IN  IF x # t THEN old
          ELSE IF k = 0 THEN [old EXCEPT !.spo2 = v] ELSE [old EXCEPT !.bpm = v] ]

\* read_csv: the rows it skips, and the value it yields for the others
CsvSkipped(value) == value < CsvMin
CsvValue(value) == IF value = CsvFull THEN CsvFullAs ELSE value

\* timestamp - prev_timestamp > timedelta(minutes=5)
NewSessionGapGE(local, prev) == local - prev >= SessionGap
NewSessionGap(local, prev) == local - prev > SessionGap

\* sessions[-1].append(prev_timestamp)
CloseLast(ss, prev) == [ss EXCEPT ![Len(ss)].end = prev]
OpenSession(ss, local) == Append(ss, [start |-> local, end |-> None])

\* the body of the loop over read_csv's rows, for one row of a csv file
CsvRow(row) ==
  LET local == Localize(row.ts)
      value     == PyRound(row.raw)
      ss        == IF Len(sessions) = 0 THEN OpenSession(sessions, local)
                   ELSE IF NewSessionGap(local, prev_timestamp)
                        THEN OpenSession(CloseLast(sessions, prev_timestamp), local)
                        ELSE sessions
  IN  IF CsvSkipped(value)
      THEN /\ read_rows' = Append(read_rows,
                 [ts |-> local, value |-> value, kept |-> FALSE, session |-> 0])
           /\ UNCHANGED << data, sessions, prev_timestamp >>
      ELSE /\ sessions' = ss
           /\ data' = SetField(data, local, 0, CsvValue(value))
           /\ prev_timestamp' = local
           /\ read_rows' = Append(read_rows,
                 [ts |-> local, value |-> value, kept |-> TRUE, session |-> Len(ss)])

\* the rows the csv files hold: any value in the first row, then timed rows
ReadCsvRow ==
  /\ pc = "read_csv"
  /\ Len(read_rows) < MaxRows
  /\ \E row \in (IF read_rows = << >> THEN FirstRows ELSE TimedRows) : CsvRow(row)
  /\ UNCHANGED << pc, err, fitbit_path, timezone, n_entries, last_bpm_timestamp,
                  filtered_sessions, divideVars, outVars >>

\* the long night: LongRows rows, each SessionGap after the one before; the
\* second row may come one second later and start a second session
ReadCsvRowLong ==
  /\ pc = "read_csv"
  /\ Len(read_rows) < LongRows
  /\ \E late \in (IF Len(read_rows) = 1 THEN {0, 1} ELSE {0}) :
       CsvRow([ts  |-> IF read_rows = << >> THEN LongStart
                       ELSE prev_timestamp - TzOffset + SessionGap + late,
               raw |-> 950])
  /\ UNCHANGED << pc, err, fitbit_path, timezone, n_entries, last_bpm_timestamp,
                  filtered_sessions, divideVars, outVars >>

\* the csv files are exhausted and no row was kept
CsvDoneNoSessions ==
  /\ pc = "read_csv"
  /\ Len(sessions) = 0
  /\ Raise("No SPO2 night sessions detected!")
  /\ UNCHANGED << fitbit_path, timezone, alignVars, divideVars, outVars >>

\* the csv files are exhausted: the last session is closed
CsvDone ==
  /\ pc = "read_csv"
  /\ Len(sessions) # 0
  /\ sessions' = IF sessions[Len(sessions)].end = None
                 THEN CloseLast(sessions, prev_timestamp) ELSE sessions
  /\ last_bpm_timestamp' = None
  /\ pc' = "read_json"
  /\ UNCHANGED << err, fitbit_path, timezone, read_rows, n_entries, data,
                  prev_timestamp, filtered_sessions, divideVars, outVars >>

\* the long night's csv file is exhausted after its LongRows rows
CsvDoneLong ==
  /\ Len(read_rows) = LongRows
  /\ CsvDone

\* the body of the loop over read_json's entries, for one entry
JsonEntry(entry) ==
  LET local == Localize(entry.ts)
  IN  /\ data' = SetField(data, local, 1, entry.bpm)
      /\ last_bpm_timestamp' = local
      /\ n_entries' = n_entries + 1

ReadJsonEntry ==
  /\ pc = "read_json"
  /\ n_entries < MaxEntries
  /\ \E entry \in HrEntries : JsonEntry(entry)
  /\ UNCHANGED << pc, err, fitbit_path, timezone, read_rows, sessions,
                  prev_timestamp, filtered_sessions, divideVars, outVars >>

ReadJsonEntryLong ==
  /\ pc = "read_json"
  /\ n_entries < MaxEntries
  /\ \E entry \in LongHrEntries : JsonEntry(entry)
  /\ UNCHANGED << pc, err, fitbit_path, timezone, read_rows, sessions,
                  prev_timestamp, filtered_sessions, divideVars, outVars >>

\* s[1] < last_bpm_timestamp
Retained(s, last) == s.end < last

RECURSIVE FilterSessions(_, _)
FilterSessions(ss, last) ==
  IF ss = << >> THEN << >>
  ELSE (IF Retained(Head(ss), last) THEN << Head(ss) >> ELSE << >>)
       \o FilterSessions(Tail(ss), last)

\* the heart-rate files hold no entry: datetime < None
AlignFilterTypeError ==
  /\ pc = "read_json"
  /\ last_bpm_timestamp = None
  /\ Raise("TypeError")
  /\ UNCHANGED << fitbit_path, timezone, alignVars, divideVars, outVars >>

\* the retention loop and the return
AlignFilter ==
  /\ pc = "read_json"
  /\ last_bpm_timestamp # None
  /\ filtered_sessions' = FilterSessions(sessions, last_bpm_timestamp)
  /\ pc' = "divide"
  /\ UNCHANGED << err, fitbit_path, timezone, read_rows, n_entries, data, sessions,
                  prev_timestamp, last_bpm_timestamp, divideVars, outVars >>

\* ------------------------------------------------------------ divide_data_to_viatom_chunks
\* sorted(data.items())
RECURSIVE SortedItems(_, _)
SortedItems(d, keys) ==
  IF keys = {} THEN << >>
  ELSE LET t == Min(keys)
       IN  << [ts |-> t, spo2 |-> d[t].spo2, bpm |-> d[t].bpm] >>
           \o SortedItems(d, keys \ {t})

DivideStart ==
  /\ pc = "divide"
  /\ sorted_data' = SortedItems(data, DOMAIN data)
  /\ chunks' = << >>
  /\ chunk' = << >>
  /\ s_idx' = 1
  /\ i' = 1
  /\ last_timestamp' = None
  /\ pc' = "walk"
  /\ UNCHANGED << err, fitbit_path, timezone, alignVars, spo2, bpm, outVars >>

\* the names of one pass of the inner loop
Session == filtered_sessions[s_idx]
Timestamp == IF last_timestamp = None THEN sorted_data[i].ts ELSE last_timestamp
EndTimestamp == sorted_data[i + 1].ts
Spo2Now == IF sorted_data[i].spo2 # None THEN sorted_data[i].spo2 ELSE spo2
BpmNow == IF sorted_data[i].bpm # None THEN sorted_data[i].bpm ELSE bpm
InInnerLoop ==
  /\ pc = "walk"
  /\ s_idx <= Len(filtered_sessions)
  /\ i <= Len(sorted_data) - 1

\* timestamp < session[0] or timestamp > session[1]
OutOfSession(t, session) == t < session.start \/ t > session.end

\* len(chunk) >= 4095
ChunkFullGT(c) == Len(c) > MaxChunkLen
ChunkFull(c) == Len(c) >= MaxChunkLen

\* timestamp += timedelta(seconds=4)
NextGrid(t) == t + GridStep

\* one pass of the while loop, on w = [chunks, chunk, timestamp]; a record also
\* carries the index of the session whose walk appended it (history)
WhilePass(w, sp, bp, s) ==
  LET full == ChunkFull(w.chunk)
  IN  [ chunks    |-> IF full THEN Append(w.chunks, w.chunk) ELSE w.chunks,
        chunk     |-> Append(IF full THEN << >> ELSE w.chunk,
                             [ts |-> w.timestamp, spo2 |-> sp, bpm |-> bp,
                              session |-> s]),
        timestamp |-> NextGrid(w.timestamp) ]

\* up to n passes of the while loop
RECURSIVE WhilePasses(_, _, _, _, _, _)
WhilePasses(w, end, sp, bp, s, n) ==
  IF n = 0 \/ ~(w.timestamp < end) THEN w
  ELSE WhilePasses(WhilePass(w, sp, bp, s), end, sp, bp, s, n - 1)

\* the while loop, run to its end in rounds of EvalDepth passes
RECURSIVE WhileLoop(_, _, _, _, _)
WhileLoop(w, end, sp, bp, s) ==
  IF ~(w.timestamp < end) THEN w
  ELSE WhileLoop(WhilePasses(w, end, sp, bp, s, EvalDepth), end, sp, bp, s)

\* the pass ends at the continue
IntervalSkip ==
  /\ InInnerLoop
  /\ OutOfSession(Timestamp, Session)
  /\ spo2' = Spo2Now
  /\ bpm' = BpmNow
  /\ i' = i + 1
  /\ UNCHANGED << pc, err, fitbit_path, timezone, alignVars, sorted_data, chunks,
                  chunk, s_idx, last_timestamp, outVars >>

\* the pass runs the while loop to its end: last_timestamp = timestamp
IntervalEmit ==
  /\ InInnerLoop
  /\ ~OutOfSession(Timestamp, Session)
  /\ Timestamp < EndTimestamp => (Spo2Now # Unbound /\ BpmNow # Unbound)
  /\ LET w == WhileLoop([chunks |-> chunks, chunk |-> chunk, timestamp |-> Timestamp],
                        EndTimestamp, Spo2Now, BpmNow, s_idx)
     IN  /\ chunks' = w.chunks
         /\ chunk' = w.chunk
         /\ last_timestamp' = w.timestamp
  /\ spo2' = Spo2Now
  /\ bpm' = BpmNow
  /\ i' = i + 1
  /\ UNCHANGED << pc, err, fitbit_path, timezone, alignVars, sorted_data, s_idx,
                  outVars >>

\* chunk.append((timestamp, spo2, bpm)) reads a name no pass has bound
IntervalUnbound ==
  /\ InInnerLoop
  /\ ~OutOfSession(Timestamp, Session)
  /\ Timestamp < EndTimestamp
  /\ ~(Spo2Now # Unbound /\ BpmNow # Unbound)
  /\ spo2' = Spo2Now
  /\ bpm' = BpmNow
  /\ Raise("UnboundLocalError")
  /\ UNCHANGED << fitbit_path, timezone, alignVars, sorted_data, chunks, chunk,
                  s_idx, i, last_timestamp, outVars >>

\* if chunk: chunks.append(chunk); chunk = []
SealKeep(cs, c) == [chunks |-> cs, chunk |-> c]
Seal(cs, c) ==
  IF c # << >> THEN [chunks |-> Append(cs, c), chunk |-> << >>]
  ELSE [chunks |-> cs, chunk |-> c]

\* the inner loop is exhausted: the session's chunk is sealed
SessionEnd ==
  /\ pc = "walk"
  /\ s_idx <= Len(filtered_sessions)
  /\ i > Len(sorted_data) - 1
  /\ LET r == Seal(chunks, chunk)
     IN  chunks' = r.chunks /\ chunk' = r.chunk
  /\ s_idx' = s_idx + 1
  /\ i' = 1
  /\ last_timestamp' = None
  /\ UNCHANGED << pc, err, fitbit_path, timezone, alignVars, sorted_data, spo2, bpm,
                  outVars >>

\* the outer loop is exhausted: if chunk: chunks.append(chunk); return chunks
DivideReturn ==
  /\ pc = "walk"
  /\ s_idx > Len(filtered_sessions)
  /\ chunks' = IF chunk # << >> THEN Append(chunks, chunk) ELSE chunks
  /\ n_written' = 0
  /\ pc' = "write"
  /\ UNCHANGED << err, fitbit_path, timezone, alignVars, sorted_data, chunk, s_idx, i,
                  last_timestamp, spo2, bpm, files, sleep_csv >>

\* ------------------------------------------------------------ write_to_viatom_file
\* struct.pack: little-endian, of 1, 2 and 4 bytes
InRange(x, bytes) ==
  /\ x >= 0
  /\ IF bytes = 1 THEN x < 256 ELSE IF bytes = 2 THEN x < 65536 ELSE x \div 65536 < 65536
PackB(x) == << x % 256 >>
PackH(x) == << x % 256, (x \div 256) % 256 >>
PackI(x) == << x % 256, (x \div 256) % 256, (x \div 65536) % 256, (x \div 16777216) % 256 >>

\* "{}.bin".format(data[0][0].strftime("%Y%m%d%H%M%S")), as its six fields
BinFile(t) == << Year(t), Month(t), Day(t), Hour(t), Minute(t), Second(t) >>

Zeros(n) == [k \in 1..n |-> 0]

\* the 40 bytes of the header
HeaderDurationInBytes(d) ==
  LET t == d[1].ts
  IN  << 5, 0 >> \o PackH(Year(t))
      \o PackB(Month(t)) \o PackB(Day(t)) \o PackB(Hour(t)) \o PackB(Minute(t))
      \o PackB(Second(t))
      \o PackI(Len(d) * RecordLen + HeaderLen)
      \o PackH(Len(d) * RecordLen)
      \o Zeros(25)
Header(d) ==
  LET t == d[1].ts
  IN  << 5, 0 >> \o PackH(Year(t))
      \o PackB(Month(t)) \o PackB(Day(t)) \o PackB(Hour(t)) \o PackB(Minute(t))
      \o PackB(Second(t))
      \o PackI(Len(d) * RecordLen + HeaderLen)
      \o PackH(Len(d) * GridStep)
      \o Zeros(25)

\* the SpO2 byte of one record
Spo2Byte(v) ==
  IF v <= WriterInvalid THEN 255
  ELSE IF v > WriterMax THEN WriterMax
  ELSE v

\* the bytes of one record
RecordBytes(record) ==
  IF record.spo2 <= WriterInvalid
  THEN << 255 >> \o PackB(record.bpm) \o << 255, 0, 0 >>
  ELSE << Spo2Byte(record.spo2) >> \o PackB(record.bpm) \o << 0, 0, 0 >>

\* the bytes of the first n records
RecordsBytes(d, n) ==
  LET rb == [k \in 1..n |-> RecordBytes(d[k])]
  IN  [j \in 1..(n * RecordLen) |-> rb[((j - 1) \div RecordLen) + 1][((j - 1) % RecordLen) + 1]]

\* the records whose heart rate struct.pack("<B", ...) refuses
Unpackable(d) == { k \in 1..Len(d) : ~InRange(d[k].bpm, 1) }

SetFile(fs, name, bytes) ==
  [ x \in DOMAIN fs \cup {name} |-> IF x = name THEN bytes ELSE fs[x] ]

\* one pass of the loop over the chunks: write_to_viatom_file(chunk)
WriteToViatomFile ==
  /\ pc = "write"
  /\ n_written < Len(chunks)
  /\ LET d    == chunks[n_written + 1]
         bad  == Unpackable(d)
     IN  IF Len(d) > MaxChunkLen
         THEN /\ Raise("Data chunk too long")
              /\ UNCHANGED << n_written, files >>
         ELSE IF bad # {}
         THEN \* the file holds what was written before struct.error
              /\ files' = SetFile(files, BinFile(d[1].ts),
                                  Header(d) \o RecordsBytes(d, Min(bad) - 1)
                                  \o << Spo2Byte(d[Min(bad)].spo2) >>)
              /\ Raise("struct.error")
              /\ UNCHANGED n_written
         ELSE /\ files' = SetFile(files, BinFile(d[1].ts),
                                  Header(d) \o RecordsBytes(d, Len(d)))
              /\ n_written' = n_written + 1
              /\ UNCHANGED << pc, err >>
  /\ UNCHANGED << fitbit_path, timezone, alignVars, divideVars, sleep_csv >>

\* every chunk is written: export_spo2_as_viatom returns
ExportSpo2Return ==
  /\ pc = "write"
  /\ n_written = Len(chunks)
  /\ pc' = "export_sleep"
  /\ UNCHANGED << err, fitbit_path, timezone, alignVars, divideVars, outVars >>

\* ------------------------------------------------------------ export_sleep_phases_as_dreem
\* the glob finds no sleep-*.json
ExportSleepError ==
  /\ pc = "export_sleep"
  /\ Raise("No sleep data detected!")
  /\ UNCHANGED << fitbit_path, timezone, alignVars, divideVars, outVars >>

\* write_to_dreem opens sleep.csv
ExportSleepOk ==
  /\ pc = "export_sleep"
  /\ sleep_csv' = TRUE
  /\ pc' = "done"
  /\ UNCHANGED << err, fitbit_path, timezone, alignVars, divideVars, n_written, files >>

\* ------------------------------------------------------------ specifications
Next ==
  \/ GetFitbitPathOk
  \/ GetFitbitPathError
  \/ ReadProfileTimezoneOk
  \/ ReadProfileTimezoneError
  \/ GetSpo2FilesOk
  \/ GetSpo2FilesError
  \/ ReadCsvRow
  \/ CsvDoneNoSessions
  \/ CsvDone
  \/ ReadJsonEntry
  \/ AlignFilterTypeError
  \/ AlignFilter
  \/ DivideStart
  \/ IntervalSkip
  \/ IntervalEmit
  \/ IntervalUnbound
  \/ SessionEnd
  \/ DivideReturn
  \/ WriteToViatomFile
  \/ ExportSpo2Return
  \/ ExportSleepError
  \/ ExportSleepOk

Spec == Init /\ [][Next]_vars

\* the run on the long night
NextLong ==
  \/ GetFitbitPathOk
  \/ ReadProfileTimezoneOk
  \/ GetSpo2FilesOk
  \/ ReadCsvRowLong
  \/ CsvDoneLong
  \/ ReadJsonEntryLong
  \/ AlignFilterTypeError
  \/ AlignFilter
  \/ DivideStart
  \/ IntervalSkip
  \/ IntervalEmit
  \/ IntervalUnbound
  \/ SessionEnd
  \/ DivideReturn
  \/ WriteToViatomFile
  \/ ExportSpo2Return
  \/ ExportSleepError
  \/ ExportSleepOk

SpecLong == Init /\ [][NextLong]_vars

\* ------------------------------------------------------------ properties
\* the rows read_csv yielded, in the order they were read
KeptRows == SelectSeq(read_rows, LAMBDA r : r.kept)

\* the csv loop is over and the last session is closed
CsvLoopDone ==
  pc \in {"read_json", "divide", "walk", "write", "export_sleep", "done"}

\* divide_data_to_viatom_chunks has just returned
Divided == pc = "write" /\ n_written = 0

\* the records the walk of session s appended, in the order of the chunks
RECURSIVE RecordsOf(_, _)
RecordsOf(cs, s) ==
  IF cs = << >> THEN << >>
  ELSE SelectSeq(Head(cs), LAMBDA r : r.session = s) \o RecordsOf(Tail(cs), s)

\* the chunks that hold session s
ChunksOf(s) == { k \in 1..Len(chunks) : chunks[k][1].session = s }

\* the latest index timestamp at or before t that has field f
Observed(t, f) == { x \in DOMAIN data : x <= t /\ data[x][f] # None }

\* C1: no chunk holds more than 4095 records, the writer never raises its
\* 'too long' error, and a session of more than 4095 records is split into at
\* least two chunks, each follow-on chunk starting 4 seconds after the last
\* record of the chunk before it.
C1_ChunkCap ==
  /\ Len(chunk) <= MaxChunkLen
  /\ \A k \in 1..Len(chunks) : Len(chunks[k]) <= MaxChunkLen
  /\ err # "Data chunk too long"
  /\ Divided =>
       \A s \in 1..Len(filtered_sessions) :
         /\ Len(RecordsOf(chunks, s)) > MaxChunkLen => Cardinality(ChunksOf(s)) >= 2
         /\ \A k \in ChunksOf(s) :
              (k + 1) \in ChunksOf(s) =>
                chunks[k + 1][1].ts = chunks[k][Len(chunks[k])].ts + GridStep

C1_Witness ==
  /\ Divided
  /\ \E s \in 1..Len(filtered_sessions) :
       /\ Len(RecordsOf(chunks, s)) > MaxChunkLen
       /\ Cardinality(ChunksOf(s)) >= 2

C3_RetainedIffBeforeMaxHr ==
  pc = "divide" =>
    /\ Observed(Max(DOMAIN data), "bpm") # {}
    /\ filtered_sessions =
         SelectSeq(sessions,
                   LAMBDA s : s.end < Max(Observed(Max(DOMAIN data), "bpm")))

\* C4: every record of a session's walk has a timestamp between the session's
\* start and its end.
C4_RecordsInsideSession ==
  /\ \A k \in 1..Len(chunk) :
       /\ filtered_sessions[chunk[k].session].start <= chunk[k].ts
       /\ chunk[k].ts <= filtered_sessions[chunk[k].session].end
  /\ \A c \in 1..Len(chunks) : \A k \in 1..Len(chunks[c]) :
       /\ filtered_sessions[chunks[c][k].session].start <= chunks[c][k].ts
       /\ chunks[c][k].ts <= filtered_sessions[chunks[c][k].session].end

\* C5: a rounded value of 100 is written as 99; a rounded value <= 60 is never
\* stored and never opens or extends a session; a rounded value v with
\* 60 < v < 100 is written as the byte v; a value > 99 is written as 99.
C5_Spo2EndToEnd ==
  /\ \A k \in 1..Len(read_rows) :
       LET r == read_rows[k]
       IN  /\ r.value <= 60 => (~r.kept /\ r.session = 0)
           /\ r.value > 60 => r.kept
           /\ (r.kept /\ \A j \in (k + 1)..Len(read_rows) :
                            ~(read_rows[j].kept /\ read_rows[j].ts = r.ts)) =>
                data[r.ts].spo2 = (IF r.value = 100 THEN 99 ELSE r.value)
  /\ \A t \in DOMAIN data :
       data[t].spo2 # None =>
         \E k \in 1..Len(read_rows) : read_rows[k].ts = t /\ read_rows[k].value > 60
  /\ \A k \in 1..Len(sessions) :
       \E j \in 1..Len(read_rows) :
         read_rows[j].ts = sessions[k].start /\ read_rows[j].value > 60
  /\ (pc = "write" /\ n_written >= 1) =>
       LET d == chunks[n_written]
           f == files[BinFile(d[1].ts)]
       IN  \A k \in 1..Len(d) :
             LET byte == f[HeaderLen + RecordLen * (k - 1) + 1]
             IN  /\ (60 < d[k].spo2 /\ d[k].spo2 < 100) => byte = d[k].spo2
                 /\ d[k].spo2 > 99 => byte = 99

\* little-endian decoding
U16(f, at) == f[at + 1] + 256 * f[at + 2]
U32(f, at) == f[at + 1] + 256 * f[at + 2] + 65536 * f[at + 3] + 16777216 * f[at + 4]

\* C6: the header of a written chunk of n records decodes to the fields of the
\* first record's timestamp, file_size = n*5 + 40 and duration = n*4, and the
\* file holds file_size bytes.
C6_HeaderRoundTrip ==
  (pc = "write" /\ n_written >= 1) =>
    LET d == chunks[n_written]
        f == files[BinFile(d[1].ts)]
        t == d[1].ts
        n == Len(d)
    IN  /\ 1 <= n /\ n <= 4095
        /\ f[1] = 5 /\ f[2] = 0
        /\ U16(f, 2) = Year(t)
        /\ << f[5], f[6], f[7], f[8], f[9] >>
             = << Month(t), Day(t), Hour(t), Minute(t), Second(t) >>
        /\ U32(f, 9) = n * 5 + 40
        /\ U16(f, 13) = n * 4
        /\ n * 4 < 65536
        /\ Len(f) = U32(f, 9)
        /\ \A k \in 1..n : f[40 + 5 * (k - 1) + 2] = d[k].bpm

C6_Witness ==
  /\ pc = "write"
  /\ n_written >= 1
  /\ \E k \in 1..Len(chunks[n_written]) : chunks[n_written][k].spo2 <= 61
  /\ \E k \in 1..Len(chunks[n_written]) : chunks[n_written][k].spo2 > 61
  /\ Year(chunks[n_written][1].ts) = 2024

\* the errors raised for a bad setup
SetupErrors ==
  { "not a valid directory", "does not contain Takeout/Fitbit",
    "Profile not detected!", "No SpO2 or heart rate data detected!",
    "No sleep data detected!", "No SPO2 night sessions detected!" }

\* C7: a run that ends in a setup error has written no output file.
C7_SetupErrorBeforeOutput ==
  (pc = "error" /\ err \in SetupErrors) => (DOMAIN files = {} /\ ~sleep_csv)

\* C8: align_spo2_data never returns an empty session list: with no session
\* left the run ends in the 'no sessions detected' error.
C8_NoEmptySessionList ==
  /\ pc = "divide" => filtered_sessions # << >>
  /\ err # "TypeError"

\* C9: every record carries the SpO2 value and the heart rate of the latest
\* index entry at or before its timestamp that has one.
CarriesLatest(r) ==
  /\ Observed(r.ts, "spo2") # {}
  /\ Observed(r.ts, "bpm") # {}
  /\ r.spo2 = data[Max(Observed(r.ts, "spo2"))].spo2
  /\ r.bpm = data[Max(Observed(r.ts, "bpm"))].bpm

C9_CarryForward ==
  /\ \A k \in 1..Len(chunk) : CarriesLatest(chunk[k])
  /\ \A c \in 1..Len(chunks) : \A k \in 1..Len(chunks[c]) : CarriesLatest(chunks[c][k])

\* C10: the records of a session form a gap-free 4-second grid from the
\* session's start that covers every grid point up to the session's end once;
\* every chunk is non-empty and holds records of exactly one session.
C10_SessionGrid ==
  Divided =>
    /\ \A c \in 1..Len(chunks) :
         /\ chunks[c] # << >>
         /\ \A k \in 1..Len(chunks[c]) : chunks[c][k].session = chunks[c][1].session
         /\ c > 1 => chunks[c - 1][1].session <= chunks[c][1].session
    /\ \A s \in 1..Len(filtered_sessions) :
         LET R     == RecordsOf(chunks, s)
             start == filtered_sessions[s].start
             end   == filtered_sessions[s].end
         IN  /\ start <= end => R # << >>
             /\ R # << >> => R[1].ts = start
             /\ \A k \in 1..(Len(R) - 1) : R[k + 1].ts = R[k].ts + 4
             /\ \A g \in start..end :
                  (g - start) % 4 = 0 =>
                    Cardinality({ k \in 1..Len(R) : R[k].ts = g }) = 1

C10_Witness ==
  /\ Divided
  /\ Len(filtered_sessions) >= 2
  /\ \A s \in 1..Len(filtered_sessions) : ChunksOf(s) # {}
  /\ \E s \in 1..Len(filtered_sessions) :
       filtered_sessions[s].start < filtered_sessions[s].end

====
